---- MODULE Spec2Model ----
(***************************************************************************)
(* Model of polyhts.session.Session: the combinatorial screening engine.   *)
(*                                                                         *)
(* Text is modelled as text: a string is a sequence of characters, a       *)
(* character is a natural number (ordered as in ASCII), a file is a        *)
(* sequence of lines.  The Work-Log is the file 'temp', the result file is *)
(* '<session>/screening-output'.                                           *)
(***************************************************************************)
EXTENDS Integers, Sequences, FiniteSets, Bags, TLC

\* ---------------------------------------------------------------- bounds
MaxMonomers == 2     \* identifiers available to a monomers file
MaxLen      == 2     \* largest length_repeat of a session
MaxProcs    == 2     \* largest nprocs of a screen call
MaxSelect   == 2     \* largest random_select of a screen call
MaxScreens  == 2     \* screen calls made on one session

\* ------------------------------------------------------------ characters
TAB      == 0
SP       == 1
HYPHEN   == 2
DIGIT    == 3
LetterA  == 4        \* 'A'; the following numbers are 'B', 'C', ...

NumStages == 5       \* the stage calls of the try body
NumCols   == 9       \* placeholders of the row format

IsSpace(c) == c = TAB \/ c = SP

\* string.ascii_uppercase[i] (0-based)
AsciiUppercase(i) == <<LetterA + i>>

\* the identifiers a monomers file may name: 'A', 'B', ...
Identifiers == {AsciiUppercase(i) : i \in 0..(MaxMonomers - 1)}

\* ------------------------------------------------------- text primitives
RECURSIVE Join(_, _)
\* sep.join(parts)
Join(parts, sep) ==
    IF Len(parts) = 0 THEN <<>>
    ELSE IF Len(parts) = 1 THEN parts[1]
    ELSE parts[1] \o sep \o Join(Tail(parts), sep)

RECURSIVE SplitFrom(_, _, _)
\* scan of str.split(): cur is the token being read, acc the tokens read
SplitFrom(line, cur, acc) ==
    IF Len(line) = 0
    THEN IF Len(cur) = 0 THEN acc ELSE Append(acc, cur)
    ELSE IF IsSpace(Head(line))
         THEN SplitFrom(Tail(line), <<>>,
                        IF Len(cur) = 0 THEN acc ELSE Append(acc, cur))
         ELSE SplitFrom(Tail(line), Append(cur, Head(line)), acc)

\* line.split(): the whitespace-separated tokens of a line
Split(line) == SplitFrom(line, <<>>, <<>>)

\* permutation[::-1]
Reverse(t) == [i \in 1..Len(t) |-> t[Len(t) + 1 - i]]

Range(s) == {s[i] : i \in 1..Len(s)}

RECURSIVE Flatten(_)
Flatten(ss) == IF Len(ss) = 0 THEN <<>> ELSE Head(ss) \o Flatten(Tail(ss))

RECURSIVE product_swapped(_, _)
\* the nesting of the two loops exchanged: the first position varies fastest
product_swapped(pool, n) ==
    IF n = 0 THEN << <<>> >>
    ELSE LET result == product_swapped(pool, n - 1)
         IN  Flatten([j \in 1..Len(pool) |->
                        [i \in 1..Len(result) |-> Append(result[i], pool[j])]])

RECURSIVE product(_, _)
\* itertools.product(pool, repeat=n): result = [x+[y] for x in result for y in pool]
product(pool, n) ==
    IF n = 0 THEN << <<>> >>
    ELSE LET result == product(pool, n - 1)
         IN  Flatten([i \in 1..Len(result) |->
                        [j \in 1..Len(pool) |-> Append(result[i], pool[j])]])

\* ----------------------------------------------------- utilities helpers
\* utilities.output_header: the fixed nine-column header line
output_header == Join([i \in 1..NumCols |-> <<LetterA + 25>>], <<TAB>>)

\* the line utilities.property_log appends for a composition: its identifiers,
\* then the property fields, NumCols tab-separated fields in all
PropertyRow(perm) ==
    Join(perm \o [i \in 1..(NumCols - Len(perm)) |-> <<DIGIT>>], <<TAB>>)

\* ------------------------------------------------------------------ state
VARIABLES
    length_repeat,   \* self.length_repeat
    main_pc,         \* where the caller of the session is
    screens,         \* screen calls made so far
    monomers,        \* list(monomers_dict): the identifiers in catalog order
    nprocs,          \* n_jobs of the running Parallel
    random_select,   \* argument of screen; 0 is False
    gen_pc,          \* position of the generator get_polymer_compositions
    index,           \* items the exhaustive loop has yielded
    len_product,     \* local of the generator
    counter,         \* local of the generator
    choice,          \* local of the generator; -1 before the first draw
    yielded,         \* the items the generator has yielded in this screen call
    pc,              \* position of each runner (0: caller, 1..: workers)
    permutation,     \* argument of each runner
    stage,           \* the stage call a runner is at
    started,         \* the stage calls started by the try body a runner is in
    failed,          \* the stage call of that try body that raised, 0 if none
    temp,            \* lines of the file 'temp'
    dirs,            \* names of the working directories that exist
    junk,            \* directories that hold transient artifacts
    out,             \* lines of screening-output; <<>> while it does not exist
    errlog           \* the entries of the error log: a bag of compositions

config  == <<length_repeat, monomers, nprocs, random_select>>
genvars == <<gen_pc, index, len_product, counter, choice, yielded>>
runvars == <<pc, permutation, stage, started, failed>>
files   == <<temp, dirs, junk, out, errlog>>
vars    == <<config, main_pc, screens, genvars, runvars, files>>

Runners == 0..MaxProcs
Workers == 1..nprocs

\* the catalogs a monomers file can give: distinct identifiers in file order
Catalogs ==
    {c \in UNION {[1..n -> Identifiers] : n \in 1..MaxMonomers} :
        \A i, j \in 1..Len(c) : i # j => c[i] # c[j]}

\* -------------------------------------------------------------- __init__
Init ==
    /\ length_repeat \in 1..MaxLen
    /\ main_pc = "ready"
    /\ screens = 0
    /\ monomers = <<>>
    /\ nprocs = 0
    /\ random_select = 0
    /\ gen_pc = "none"
    /\ index = 0
    /\ len_product = 0
    /\ counter = 0
    /\ choice = -1
    /\ yielded = <<>>
    /\ pc = [w \in Runners |-> "idle"]
    /\ permutation = [w \in Runners |-> <<>>]
    /\ stage = [w \in Runners |-> 0]
    /\ started = [w \in Runners |-> <<>>]
    /\ failed = [w \in Runners |-> 0]
    /\ temp = <<>>
    /\ dirs = {}
    /\ junk = {}
    /\ out = <<>>
    /\ errlog = EmptyBag

\* ---------------------------------------------------------------- screen
\* a screen that opens the Work-Log anew as it opens the output file
ScreenCall_ClearsLog(mons, np, rs) ==
    /\ main_pc \in {"ready", "returned"}
    /\ screens < MaxScreens
    /\ screens > 0 => <<mons, np, rs>> = <<monomers, nprocs, random_select>>
    /\ screens' = screens + 1
    /\ main_pc' = "screen"
    /\ monomers' = mons
    /\ nprocs' = np
    /\ random_select' = rs
    /\ out' = <<output_header>>
    /\ temp' = <<>>
    /\ gen_pc' = "start"
    /\ index' = 0
    /\ len_product' = 0
    /\ counter' = 0
    /\ choice' = -1
    /\ yielded' = <<>>
    /\ UNCHANGED <<length_repeat, runvars, dirs, junk, errlog>>

\* screen up to the creation of the generator and of the Parallel; a session
\* that screens again does so with the arguments of its first screen call
ScreenCall(mons, np, rs) ==
    /\ main_pc \in {"ready", "returned"}
    /\ screens < MaxScreens
    /\ screens > 0 => <<mons, np, rs>> = <<monomers, nprocs, random_select>>
    /\ screens' = screens + 1
    /\ main_pc' = "screen"
    /\ monomers' = mons
    /\ nprocs' = np
    /\ random_select' = rs
    /\ out' = <<output_header>>
    /\ gen_pc' = "start"
    /\ index' = 0
    /\ len_product' = 0
    /\ counter' = 0
    /\ choice' = -1
    /\ yielded' = <<>>
    /\ UNCHANGED <<length_repeat, runvars, temp, dirs, junk, errlog>>

\* ---------------------------------------------- get_polymer_compositions
Compositions == product(monomers, length_repeat)

\* the generator runs to its first loop
GenStart ==
    /\ main_pc = "screen"
    /\ gen_pc = "start"
    /\ IF random_select = 0
       THEN /\ gen_pc' = "exhaustive"
            /\ UNCHANGED <<len_product, counter>>
       ELSE /\ gen_pc' = "random"
            /\ len_product' = Len(Compositions)
            /\ counter' = 0
    /\ UNCHANGED <<config, main_pc, screens, index, choice, yielded, runvars, files>>

\* Parallel takes an item from the generator when worker w is free and
\* calls screening_protocol on it there
Deliver(w, item) ==
    /\ yielded' = Append(yielded, item)
    /\ pc' = [pc EXCEPT ![w] = "read"]
    /\ permutation' = [permutation EXCEPT ![w] = item]
    /\ stage' = [stage EXCEPT ![w] = 0]
    /\ started' = [started EXCEPT ![w] = <<>>]
    /\ failed' = [failed EXCEPT ![w] = 0]

\* for item in product: yield item
NextExhaustive(w) ==
    /\ main_pc = "screen"
    /\ gen_pc = "exhaustive"
    /\ w \in Workers
    /\ pc[w] = "idle"
    /\ index < Len(Compositions)
    /\ index' = index + 1
    /\ Deliver(w, Compositions[index + 1])
    /\ UNCHANGED <<config, main_pc, screens, gen_pc, len_product, counter, choice, files>>

\* the items of one walk of the enumeration whose index equals c
Walk(c) ==
    LET hit(i) == i - 1 = c
    IN  Flatten([i \in 1..Len(Compositions) |->
                    IF hit(i) THEN <<Compositions[i]>> ELSE <<>>])

\* a draw that returns its upper bound alone
randint_UpperOnly(a, b) == {b}

\* random.randint(a, b): any integer of a..b
randint(a, b) == a..b

\* one turn of the while loop: a draw and a walk of the enumeration
NextRandom(w) ==
    /\ main_pc = "screen"
    /\ gen_pc = "random"
    /\ w \in Workers
    /\ pc[w] = "idle"
    /\ counter < random_select
    /\ \E c \in randint(0, len_product) :
        /\ choice' = c
        /\ IF Len(Walk(c)) > 0
           THEN /\ counter' = counter + 1
                /\ Deliver(w, Walk(c)[1])
           ELSE UNCHANGED <<counter, yielded, runvars>>
    /\ UNCHANGED <<config, main_pc, screens, gen_pc, index, len_product, files>>

\* Parallel asks for a next item with no task running and the generator
\* returns: its frame and its locals are gone
GenStop ==
    /\ main_pc = "screen"
    /\ \A w \in Workers : pc[w] = "idle"
    /\ IF gen_pc = "exhaustive"
       THEN index = Len(Compositions)
       ELSE gen_pc = "random" /\ ~(counter < random_select)
    /\ gen_pc' = "done"
    /\ index' = 0
    /\ len_product' = 0
    /\ counter' = 0
    /\ choice' = -1
    /\ UNCHANGED <<config, main_pc, screens, yielded, runvars, files>>

\* Parallel returns once the generator is exhausted and every task is over
ScreenReturn ==
    /\ main_pc = "screen"
    /\ gen_pc = "done"
    /\ \A w \in Workers : pc[w] = "idle"
    /\ main_pc' = "returned"
    /\ UNCHANGED <<config, screens, genvars, runvars, files>>

\* ---------------------------------------------------- screening_protocol
\* [tuple(i.split()) for i in f]
ParseLog(lines) == [i \in 1..Len(lines) |-> Split(lines[i])]

\* the test of one orientation only
Handled_OneWay(perm, screened) == perm \in Range(screened)

\* the negation of the test of line 178 on what was read from 'temp'
Handled(perm, screened) ==
    perm \in Range(screened) \/ Reverse(perm) \in Range(screened)

\* '-'.join(id for id in permutation)
DirName(perm) == Join(perm, <<HYPHEN>>)

\* the directory a runner works in: the session directory for the caller
Cwd(w) == IF w = 0 THEN <<>> ELSE DirName(permutation[w])

\* the file is read and tested: the composition is skipped or goes on
Read(w) ==
    /\ w \in Workers
    /\ pc[w] = "read"
    /\ LET screened == ParseLog(temp)
       IN  pc' = [pc EXCEPT ![w] =
                    IF Handled(permutation[w], screened) THEN "done" ELSE "append"]
    /\ UNCHANGED <<config, main_pc, screens, genvars, permutation, stage, started,
                   failed, files>>

\* a dispatch that goes on to the pipeline without recording the composition
AppendLog_Skip(w) ==
    /\ w \in Workers
    /\ pc[w] = "append"
    /\ pc' = [pc EXCEPT ![w] = "makedirs"]
    /\ UNCHANGED <<config, main_pc, screens, genvars, permutation, stage, started,
                   failed, files>>

\* f.write(' '.join(list(permutation))+'\n') in append mode
AppendLog(w) ==
    /\ w \in Workers
    /\ pc[w] = "append"
    /\ temp' = Append(temp, Join(permutation[w], <<SP>>))
    /\ pc' = [pc EXCEPT ![w] = "makedirs"]
    /\ UNCHANGED <<config, main_pc, screens, genvars, permutation, stage, started,
                   failed, dirs, junk, out, errlog>>

\* os.makedirs, an existing directory is accepted; then the with cd: block
MakeDirs(w) ==
    /\ w \in Workers
    /\ pc[w] = "makedirs"
    /\ dirs' = dirs \cup {DirName(permutation[w])}
    /\ pc' = [pc EXCEPT ![w] = "stage"]
    /\ stage' = [stage EXCEPT ![w] = 1]
    /\ UNCHANGED <<config, main_pc, screens, genvars, permutation, started,
                   failed, temp, junk, out, errlog>>

\* a failed stage call does not end the try body
AfterStage_Continue(i, ok) == IF i < NumStages THEN i + 1 ELSE 0

\* the exception of a failed stage call leaves screening_protocol
OnStageFailure_Reraise == "raised"

\* the stage calls of the try body, in the order of its statements
StageCalls ==
    <<"generate_polymer", "conformer_search", "xtb_opt",
      "xtb_calc_potentials", "stda_calc_excitation">>

\* the stage call that follows stage call i of a try body, 0 when the body
\* is left: after the last call, or by the exception of a failed call
AfterStage(i, ok) == IF ok /\ i < NumStages THEN i + 1 ELSE 0

\* where a worker goes when a stage call raises: the except clause
OnStageFailure == "error_log"

\* one stage call of the try body of screening_protocol (w > 0) or of
\* calc_polymer_properties (w = 0): it returns or it raises
Stage(w) ==
    /\ pc[w] = "stage"
    /\ \E ok \in BOOLEAN :
        LET i == stage[w]
            nxt == AfterStage(i, ok)
        IN  /\ started' = [started EXCEPT ![w] = Append(@, StageCalls[i])]
            /\ failed' = [failed EXCEPT ![w] = IF ok THEN @ ELSE i]
            /\ stage' = [stage EXCEPT ![w] = nxt]
            /\ pc' = [pc EXCEPT ![w] =
                        IF nxt # 0 THEN "stage"
                        ELSE IF w = 0 THEN "remove_junk"
                        ELSE IF ok THEN "property_log"
                        ELSE OnStageFailure]
    /\ junk' = junk \cup {Cwd(w)}
    /\ UNCHANGED <<config, main_pc, screens, genvars, permutation, temp, dirs,
                   out, errlog>>

\* property_log(repeat, vip, vea, gap, f, E_solv)
PropertyLog(w) ==
    /\ w \in Workers
    /\ pc[w] = "property_log"
    /\ out' = Append(out, PropertyRow(permutation[w]))
    /\ pc' = [pc EXCEPT ![w] = "remove_junk"]
    /\ started' = [started EXCEPT ![w] = <<>>]
    /\ failed' = [failed EXCEPT ![w] = 0]
    /\ UNCHANGED <<config, main_pc, screens, genvars, permutation, stage,
                   temp, dirs, junk, errlog>>

\* an except clause that logs the error and returns without remove_junk
ErrorLog_NoCleanup(w) ==
    /\ w \in Workers
    /\ pc[w] = "error_log"
    /\ errlog' = errlog (+) SetToBag({permutation[w]})
    /\ pc' = [pc EXCEPT ![w] = "done"]
    /\ started' = [started EXCEPT ![w] = <<>>]
    /\ failed' = [failed EXCEPT ![w] = 0]
    /\ UNCHANGED <<config, main_pc, screens, genvars, permutation, stage,
                   temp, dirs, junk, out>>

\* error_log(permutation, monomers_dict, e)
ErrorLog(w) ==
    /\ w \in Workers
    /\ pc[w] = "error_log"
    /\ errlog' = errlog (+) SetToBag({permutation[w]})
    /\ pc' = [pc EXCEPT ![w] = "remove_junk"]
    /\ started' = [started EXCEPT ![w] = <<>>]
    /\ failed' = [failed EXCEPT ![w] = 0]
    /\ UNCHANGED <<config, main_pc, screens, genvars, permutation, stage,
                   temp, dirs, junk, out>>

\* remove_junk() in the directory of the runner
RemoveJunk(w) ==
    /\ pc[w] = "remove_junk"
    /\ junk' = junk \ {Cwd(w)}
    /\ pc' = [pc EXCEPT ![w] = "done"]
    /\ started' = [started EXCEPT ![w] = <<>>]
    /\ failed' = [failed EXCEPT ![w] = 0]
    /\ UNCHANGED <<config, main_pc, screens, genvars, permutation, stage,
                   temp, dirs, out, errlog>>

\* the runner returns to its caller, or its exception reaches the caller
Return(w) ==
    /\ pc[w] \in {"done", "raised"}
    /\ main_pc' = IF pc[w] = "raised" THEN "raised"
                  ELSE IF w = 0 THEN "ready" ELSE main_pc
    /\ pc' = [pc EXCEPT ![w] = "idle"]
    /\ permutation' = [permutation EXCEPT ![w] = <<>>]
    /\ stage' = [stage EXCEPT ![w] = 0]
    /\ started' = [started EXCEPT ![w] = <<>>]
    /\ failed' = [failed EXCEPT ![w] = 0]
    /\ UNCHANGED <<config, screens, genvars, files>>

\* ----------------------------------------------- calc_polymer_properties
\* calc_polymer_properties(smiles, name) with n smiles, up to the try body
CalcCall(n) ==
    /\ main_pc \in {"ready", "returned"}
    /\ main_pc' = "calc"
    /\ permutation' = [permutation EXCEPT ![0] = [i \in 1..n |-> AsciiUppercase(i - 1)]]
    /\ pc' = [pc EXCEPT ![0] = "stage"]
    /\ stage' = [stage EXCEPT ![0] = 1]
    /\ started' = [started EXCEPT ![0] = <<>>]
    /\ failed' = [failed EXCEPT ![0] = 0]
    /\ UNCHANGED <<config, screens, genvars, files>>

\* ----------------------------------------------------------- output_sort
RECURSIVE StrLess(_, _)
\* a < b on str
StrLess(a, b) ==
    IF Len(b) = 0 THEN FALSE
    ELSE IF Len(a) = 0 THEN TRUE
    ELSE IF Head(a) # Head(b) THEN Head(a) < Head(b)
    ELSE StrLess(Tail(a), Tail(b))

\* operator.itemgetter(0, 1)(line)
SortKey(line) == <<line[1], line[2]>>

\* k1 < k2 on the key tuples
KeyLess(k1, k2) ==
    StrLess(k1[1], k2[1]) \/ (k1[1] = k2[1] /\ StrLess(k1[2], k2[2]))

RECURSIVE InsertRow_Unstable(_, _)
\* row placed before the rows of the sorted rows whose key is equal
InsertRow_Unstable(rows, row) ==
    IF Len(rows) = 0 THEN <<row>>
    ELSE IF ~KeyLess(SortKey(Head(rows)), SortKey(row))
         THEN <<row>> \o rows
         ELSE <<Head(rows)>> \o InsertRow_Unstable(Tail(rows), row)

RECURSIVE InsertRow(_, _)
\* row placed behind every row of the sorted rows whose key is not greater
InsertRow(rows, row) ==
    IF Len(rows) = 0 THEN <<row>>
    ELSE IF KeyLess(SortKey(row), SortKey(Head(rows)))
         THEN <<row>> \o rows
         ELSE <<Head(rows)>> \o InsertRow(Tail(rows), row)

RECURSIVE SortRows(_)
\* content.sort(key=...): a stable sort
SortRows(rows) ==
    IF Len(rows) = 0 THEN <<>>
    ELSE InsertRow(SortRows(SubSeq(rows, 1, Len(rows) - 1)), rows[Len(rows)])

\* '{}\t{}\t{}\t{}\t{}\t{}\t{}\t{}\t{}\n'.format(*line), for a line of
\* at least NumCols fields
FormatRow(line) == Join(SubSeq(line, 1, NumCols), <<TAB>>)

RECURSIVE WrittenLines(_)
\* the lines written before format raises on a line with too few fields
WrittenLines(rows) ==
    IF Len(rows) = 0 \/ Len(Head(rows)) < NumCols THEN <<>>
    ELSE <<FormatRow(Head(rows))>> \o WrittenLines(Tail(rows))

\* output_sort on a file of the given lines: the file it leaves and
\* whether it raised
SortFile(lines) ==
    LET rows == [i \in 1..Len(lines) |-> Split(lines[i])]
    IN  IF Len(rows) = 0 \/ \E i \in 2..Len(rows) : Len(rows[i]) < 2
        THEN [file |-> lines, raised |-> TRUE]
        ELSE LET all == <<rows[1]>> \o SortRows(Tail(rows))
                 written == WrittenLines(all)
             IN  [file |-> written, raised |-> Len(written) < Len(all)]

\* the caller runs output_sort
OutputSort ==
    /\ main_pc \in {"ready", "returned"}
    /\ LET r == SortFile(out)
       IN  /\ out' = r.file
           /\ main_pc' = IF r.raised THEN "raised" ELSE "ready"
    /\ UNCHANGED <<config, screens, genvars, runvars, temp, dirs, junk, errlog>>

\* ------------------------------------------------------------------- spec
Next ==
    \/ \E mons \in Catalogs, np \in 1..MaxProcs, rs \in 0..MaxSelect :
          ScreenCall(mons, np, rs)
    \/ GenStart
    \/ \E w \in Runners : NextExhaustive(w)
    \/ \E w \in Runners : NextRandom(w)
    \/ GenStop
    \/ ScreenReturn
    \/ \E w \in Runners : Read(w)
    \/ \E w \in Runners : AppendLog(w)
    \/ \E w \in Runners : MakeDirs(w)
    \/ \E w \in Runners : Stage(w)
    \/ \E w \in Runners : PropertyLog(w)
    \/ \E w \in Runners : ErrorLog(w)
    \/ \E w \in Runners : RemoveJunk(w)
    \/ \E w \in Runners : Return(w)
    \/ \E n \in 1..MaxLen : CalcCall(n)
    \/ OutputSort

Spec == Init /\ [][Next]_vars

\* ================================================================ claims
\* the compositions recorded in the Work-Log, in the order of their lines
Dispatched == ParseLog(temp)

RECURSIVE Pow(_, _)
Pow(b, e) == IF e = 0 THEN 1 ELSE b * Pow(b, e - 1)

\* size of the product space of the running screen
SpaceSize == Pow(Len(monomers), length_repeat)

NoDuplicates(s) == \A i, j \in 1..Len(s) : i # j => s[i] # s[j]

\* the compositions of the output rows (the header is the first line)
RowsOf(lines) == [i \in 1..(Len(lines) - 1) |-> Split(lines[i + 1])]
RowCount(c) ==
    Cardinality({i \in 1..Len(RowsOf(out)) :
                    SubSeq(RowsOf(out)[i], 1, Len(c)) = c
                    /\ Len(c) = length_repeat})

\* C1: no composition that differs from its reverse is recorded in the
\* Work-Log together with its reverse, whatever the workers' interleaving.
SymmetryDedup ==
    \A i, j \in 1..Len(Dispatched) :
        ~(Dispatched[i] # Reverse(Dispatched[i])
          /\ Dispatched[j] = Reverse(Dispatched[i]))

\* C2: a composition is recorded (and so dispatched) at most once, also when
\* two workers run screening_protocol for it at the same time.
AtMostOnceDispatch == NoDuplicates(Dispatched)

\* position of a composition in the enumeration
EnumPos(c) == CHOOSE i \in 1..Len(Compositions) : Compositions[i] = c

\* c is enumerated no later than its reverse
ClassFirst(c) == EnumPos(c) <= EnumPos(Reverse(c))

\* C3: with one worker and exhaustive enumeration the dispatched
\* compositions are distinct, each is the first enumerated member of its
\* reversal class, and once screen has returned every class has its first
\* member dispatched; for catalog A, B and length 2 these are AA, AB, BB.
SingleWorkerDedup ==
    (screens >= 1 /\ nprocs = 1 /\ random_select = 0) =>
        /\ NoDuplicates(Dispatched)
        /\ \A c \in Range(Dispatched) : c \in Range(Compositions) /\ ClassFirst(c)
        /\ main_pc = "returned" =>
              /\ Range(Dispatched) = {c \in Range(Compositions) : ClassFirst(c)}
              /\ (monomers = <<AsciiUppercase(0), AsciiUppercase(1)>>
                  /\ length_repeat = 2) =>
                    Dispatched = << <<AsciiUppercase(0), AsciiUppercase(0)>>,
                                    <<AsciiUppercase(0), AsciiUppercase(1)>>,
                                    <<AsciiUppercase(1), AsciiUppercase(1)>> >>

SingleWorkerDedupWitness ==
    /\ main_pc = "returned"
    /\ nprocs = 1
    /\ random_select = 0
    /\ length_repeat = 2
    /\ Len(monomers) = 2
    /\ Len(yielded) = 4
    /\ Len(Dispatched) = 3
    /\ Reverse(Dispatched[2]) \in Range(yielded)
    /\ Reverse(Dispatched[2]) \notin Range(Dispatched)

\* place of an identifier in the catalog
CatalogPos(id) == CHOOSE i \in 1..Len(monomers) : monomers[i] = id

\* s before t in the lexicographic order of the catalog places
TupleLess(s, t) ==
    \E p \in 1..Len(s) :
        /\ \A q \in 1..(p - 1) : s[q] = t[q]
        /\ CatalogPos(s[p]) < CatalogPos(t[p])

\* the i-th tuple of the product space in lexicographic order: the digits of
\* i - 1 in base m name the catalog places
LexNth(i) ==
    [p \in 1..length_repeat |->
        monomers[(((i - 1) \div Pow(Len(monomers), length_repeat - p))
                    % Len(monomers)) + 1]]

\* C4: the exhaustive enumerator yields the tuples of the product space in
\* lexicographic catalog order, each once, m^L in all, the same on every run.
ExhaustiveEnumeration ==
    (screens >= 1 /\ random_select = 0) =>
        /\ Len(yielded) <= SpaceSize
        /\ \A i \in 1..Len(yielded) : yielded[i] = LexNth(i)
        /\ \A i, j \in 1..Len(yielded) : i < j => TupleLess(yielded[i], yielded[j])
        /\ gen_pc = "done" =>
              /\ Len(yielded) = SpaceSize
              /\ Range(yielded) = [1..length_repeat -> Range(monomers)]

ExhaustiveEnumerationWitness ==
    /\ gen_pc = "done"
    /\ random_select = 0
    /\ screens = 2
    /\ monomers = <<AsciiUppercase(1), AsciiUppercase(0)>>
    /\ length_repeat = 2
    /\ Len(yielded) = 4

\* C5: a random sample of k <= m^L compositions delivers k distinct
\* compositions and leaves k distinct dispatched compositions.
RandomSampleDistinct ==
    (random_select > 0 /\ random_select <= SpaceSize /\ gen_pc = "done") =>
        /\ Len(yielded) = random_select
        /\ NoDuplicates(yielded)
        /\ (main_pc = "returned" /\ screens = 1) =>
              Cardinality(Range(Dispatched)) = random_select

\* C6: a random sample larger than the product space draws nothing and
\* dispatches nothing.
OversizeSampleFailsFast ==
    (screens >= 1 /\ random_select > SpaceSize) =>
        /\ choice = -1
        /\ yielded = <<>>
        /\ temp = <<>>
        /\ dirs = {}
        /\ \A w \in Runners : w # 0 => pc[w] = "idle"

\* C7: the stage calls of a try body start in the order of StageCalls, and
\* once one has failed it is the last that was started.
StrictStageOrder ==
    \A w \in Runners :
        /\ Len(started[w]) <= NumStages
        /\ started[w] = SubSeq(StageCalls, 1, Len(started[w]))
        /\ failed[w] # 0 => failed[w] = Len(started[w])
        /\ pc[w] = "stage" => failed[w] = 0 /\ stage[w] = Len(started[w]) + 1
        /\ pc[w] = "property_log" => failed[w] = 0 /\ started[w] = StageCalls

StrictStageOrderWitness ==
    \E w \in Workers :
        /\ pc[w] = "error_log"
        /\ failed[w] = 2
        /\ started[w] = <<"generate_polymer", "conformer_search">>

\* C8: no composition has both an output row and an error-log entry, none
\* has two of either, and after the first screen every dispatched composition
\* has one of the two.
OneOutcomePerComposition ==
    \A c \in Range(Dispatched) :
        /\ RowCount(c) + CopiesIn(c, errlog) <= 1
        /\ (main_pc = "returned" /\ screens = 1) =>
              RowCount(c) + CopiesIn(c, errlog) = 1

\* C9: the exception of a stage call never leaves screening_protocol, and
\* when screen returns every delivered composition has been tested against
\* the Work-Log and every dispatch has its outcome.
FailureIsolated ==
    /\ \A w \in Runners : pc[w] # "raised"
    /\ main_pc = "returned" =>
          /\ \A c \in Range(yielded) : Handled(c, Dispatched)
          /\ random_select = 0 => Len(yielded) = SpaceSize
          /\ screens = 1 =>
                Len(Dispatched) = Len(RowsOf(out)) + BagCardinality(errlog)

FailureIsolatedWitness ==
    /\ main_pc = "returned"
    /\ screens = 1
    /\ nprocs = 1
    /\ random_select = 0
    /\ length_repeat = 1
    /\ monomers = <<AsciiUppercase(0), AsciiUppercase(1)>>
    /\ CopiesIn(<<AsciiUppercase(0)>>, errlog) = 1
    /\ RowCount(<<AsciiUppercase(1)>>) = 1

\* C10: when screen has returned, the rows of the output file are in
\* ascending order of their first two columns.
SortedAtReturn ==
    main_pc = "returned" =>
        \A i, j \in 1..Len(RowsOf(out)) :
            i < j => ~KeyLess(SortKey(RowsOf(out)[j]), SortKey(RowsOf(out)[i]))

\* ------------------------------------------- output_sort on a given file
MaxRows == 3         \* rows of a given output file

\* a line of n fields: two key columns, a third column, property fields
RowFields(k1, k2, f3, n) ==
    [i \in 1..n |-> IF i = 1 THEN k1 ELSE IF i = 2 THEN k2
                    ELSE IF i = 3 THEN f3 ELSE <<DIGIT>>]

\* the rows a given file may hold: rows of NumCols fields with every choice
\* of the first three columns, and rows of fewer and of more fields
RowShapes ==
    {RowFields(k1, k2, f3, NumCols) : k1 \in Identifiers, k2 \in Identifiers,
                                       f3 \in Identifiers}
    \cup {RowFields(k1, AsciiUppercase(0), AsciiUppercase(0), n) :
            k1 \in Identifiers, n \in {1, NumCols - 1, NumCols + 1}}

\* the files output_sort is given: no file, or the header screen writes and
\* up to MaxRows rows, their fields separated by tabs or by blanks
GivenFiles ==
    {<<>>} \cup
    {<<output_header>> \o [i \in 1..Len(rows) |-> Join(rows[i], <<sep>>)] :
        rows \in UNION {[1..n -> RowShapes] : n \in 0..MaxRows},
        sep \in {TAB, SP}}

\* a session whose screen has returned, with the output file as given
SortInit ==
    /\ length_repeat = MaxLen
    /\ main_pc = "returned"
    /\ screens = 1
    /\ monomers = <<AsciiUppercase(0)>>
    /\ nprocs = 1
    /\ random_select = 0
    /\ gen_pc = "done"
    /\ index = 0
    /\ len_product = 0
    /\ counter = 0
    /\ choice = -1
    /\ yielded = <<>>
    /\ pc = [w \in Runners |-> "idle"]
    /\ permutation = [w \in Runners |-> <<>>]
    /\ stage = [w \in Runners |-> 0]
    /\ started = [w \in Runners |-> <<>>]
    /\ failed = [w \in Runners |-> 0]
    /\ temp = <<>>
    /\ dirs = {}
    /\ junk = {}
    /\ out \in GivenFiles
    /\ errlog = EmptyBag

SortNext == OutputSort

SortSpec == SortInit /\ [][SortNext]_vars

\* every line of the file, the header too, has NumCols fields
NineFieldFile(lines) ==
    /\ Len(lines) >= 1
    /\ \A i \in 1..Len(lines) : Len(Split(lines[i])) = NumCols

\* the rows of the sequence whose key is k, in their order
RowsWithKey(rows, k) == SelectSeq(rows, LAMBDA r : SortKey(r) = k)

\* g is f with the header line kept and the rows in ascending key order,
\* rows of equal key in the order they have in f, each written with tabs
StablySorted(f, g) ==
    LET rin  == RowsOf(f)
        rout == RowsOf(g)
    IN  /\ Len(g) = Len(f)
        /\ g[1] = f[1]
        /\ \A i \in 2..Len(g) : g[i] = Join(Split(g[i]), <<TAB>>)
        /\ \A i, j \in 1..Len(rout) :
              i < j => ~KeyLess(SortKey(rout[j]), SortKey(rout[i]))
        /\ \A r \in Range(rin) \cup Range(rout) :
              RowsWithKey(rout, SortKey(r)) = RowsWithKey(rin, SortKey(r))

\* C11: output_sort on a header and nine-field rows leaves the header as
\* the first line and the rows in ascending order of (first column, second
\* column), rows equal on both columns in their previous relative order.
StableSortStep == [][NineFieldFile(out) => StablySorted(out, out')]_vars

StableSortStepWitness ==
    /\ main_pc = "ready"
    /\ Len(out) = 4
    /\ RowsOf(out) =
          <<RowFields(AsciiUppercase(0), AsciiUppercase(0), AsciiUppercase(1), NumCols),
            RowFields(AsciiUppercase(0), AsciiUppercase(0), AsciiUppercase(0), NumCols),
            RowFields(AsciiUppercase(0), AsciiUppercase(1), AsciiUppercase(0), NumCols)>>

\* the file with its rows taken in the order p, the header kept first
Reordered(lines, p) ==
    <<lines[1]>> \o [i \in 1..(Len(lines) - 1) |-> lines[1 + p[i]]]

\* C12: output_sort leaves a file of pairwise different nine-field rows
\* with the content it would leave had the same rows been appended in any
\* other order.
SortDeterministic ==
    [][(NineFieldFile(out) /\ NoDuplicates(RowsOf(out))) =>
          \A p \in Permutations(1..(Len(out) - 1)) :
              SortFile(Reordered(out, p)).file = out']_vars

\* C13: every row of the output file is a row of the file, with the same
\* fields, after any step of the session.
RecordsWriteOnce ==
    [][\A i \in 1..Len(RowsOf(out)) :
          \E j \in 1..Len(RowsOf(out')) : RowsOf(out')[j] = RowsOf(out)[i]]_vars

\* the runner is between the first stage call and the end of remove_junk
InPipeline(w) == pc[w] \in {"stage", "property_log", "error_log", "remove_junk"}

\* C14: junk files exist in a directory only while a pipeline started there
\* has not yet passed its remove_junk; a runner that has left its pipeline,
\* by success or by failure, has cleaned up behind it.
CleanupBeforeReturn ==
    \A d \in junk : \E w \in Runners : InPipeline(w) /\ Cwd(w) = d

CleanupBeforeReturnWitness ==
    /\ nprocs = 1
    /\ random_select = 0
    /\ screens = 1
    /\ pc[1] = "done"
    /\ CopiesIn(permutation[1], errlog) = 1
    /\ Len(out) >= 2
    /\ junk = {}

\* C15: no two workers are inside stage calls in the same Working
\* Directory, and different dispatched compositions have different
\* directory names.
WorkingDirsNotShared ==
    /\ \A v, w \in Workers :
          (v # w /\ pc[v] = "stage" /\ pc[w] = "stage") => Cwd(v) # Cwd(w)
    /\ \A p, q \in Range(Dispatched) : p # q => DirName(p) # DirName(q)

\* C16: every index drawn by the random enumerator is a position of the
\* product space, 0 to m^L - 1, so that the walk finds a composition for it.
DrawnIndexInSpace ==
    choice # -1 => (choice \in 0..(SpaceSize - 1) /\ Len(Walk(choice)) = 1)

\* the composition or its reverse is a line of the Work-Log
InWorkLog(perm) ==
    \E i \in 1..Len(temp) : Split(temp[i]) \in {perm, Reverse(perm)}

\* C17: every step leaves the lines of the Work-Log in place, adding at
\* most new lines behind them, and a dispatch test made for a composition
\* that the Work-Log lists, itself or reversed, ends in a skip that adds
\* no line, whether the pipeline of the listed composition failed or not.
WorkLogMonotone ==
    [][/\ Len(temp') >= Len(temp)
       /\ SubSeq(temp', 1, Len(temp)) = temp
       /\ \A w \in Workers :
            (pc[w] = "read" /\ pc'[w] # "read" /\ InWorkLog(permutation[w]))
               => (pc'[w] = "done" /\ temp' = temp /\ dirs' = dirs)]_vars

WorkLogMonotoneWitness ==
    /\ screens = 2
    /\ nprocs = 1
    /\ random_select = 0
    /\ pc[1] = "done"
    /\ CopiesIn(permutation[1], errlog) = 1
    /\ Reverse(permutation[1]) # permutation[1]
    /\ Len(out) = 1
    /\ Len(temp) = 3

\* C18: a composition is a line of the Work-Log before anything of its run
\* exists: every Working Directory, every worker from makedirs to the end
\* of its pipeline, every row of the output file and every entry of the
\* error log belongs to a composition the Work-Log lists.
RecordBeforeRun ==
    LET listed == Range(Dispatched)
        rows   == RowsOf(out)
    IN  /\ \A d \in dirs : \E p \in listed : DirName(p) = d
        /\ \A w \in Workers :
              (pc[w] = "makedirs" \/ InPipeline(w)) => permutation[w] \in listed
        /\ \A i \in 1..Len(rows) : SubSeq(rows[i], 1, length_repeat) \in listed
        /\ \A p \in BagToSet(errlog) : p \in listed

RecordBeforeRunWitness ==
    /\ main_pc = "returned"
    /\ Len(out) >= 2
    /\ errlog # EmptyBag
    /\ Cardinality(dirs) >= 2
    /\ Cardinality(dirs) = Len(temp)

\* the number of rows of the file whose fields are those of r
RowCopies(lines, r) ==
    Cardinality({i \in 1..Len(RowsOf(lines)) : RowsOf(lines)[i] = r})

\* C19: output_sort leaves every row of the file, with its fields, as often
\* as the file held it and no other row, and output_sort on the file it
\* has left changes nothing.
SortOnlyReorders ==
    [][/\ \A r \in Range(RowsOf(out)) \cup Range(RowsOf(out')) :
             RowCopies(out', r) = RowCopies(out, r)
       /\ SortFile(out').file = out']_vars

\* ------------------------------------------------ screening under fairness
\* a step of the generator, of Parallel or of a runner other than a draw
\* that finds no composition: joblib keeps its workers running, every stage
\* call returns, and the draws are fair
Progress ==
    \/ GenStart
    \/ \E w \in Runners : NextExhaustive(w)
    \/ \E w \in Runners : NextRandom(w) /\ counter' = counter + 1
    \/ GenStop
    \/ ScreenReturn
    \/ \E w \in Runners : Read(w)
    \/ \E w \in Runners : AppendLog(w)
    \/ \E w \in Runners : MakeDirs(w)
    \/ \E w \in Runners : Stage(w)
    \/ \E w \in Runners : PropertyLog(w)
    \/ \E w \in Runners : ErrorLog(w)
    \/ \E w \in Runners : RemoveJunk(w)
    \/ \E w \in Runners : Return(w)

\* the first screen call of a session and what follows from it
LiveNext ==
    \/ \E mons \in Catalogs, np \in 1..MaxProcs, rs \in 0..MaxSelect :
          screens = 0 /\ ScreenCall(mons, np, rs)
    \/ \E w \in Runners : NextRandom(w)
    \/ Progress

LiveSpec == Init /\ [][LiveNext]_vars /\ WF_vars(Progress)

\* the composition or its reverse has a row in the output file or an entry
\* in the error log
HasOutcome(perm) ==
    \/ RowCount(perm) + RowCount(Reverse(perm)) > 0
    \/ CopiesIn(perm, errlog) + CopiesIn(Reverse(perm), errlog) > 0

\* screen has returned: the enumerator has delivered random_select
\* compositions, or the m^L of the product space, no worker is busy, and
\* every delivered composition is listed in the Work-Log, itself or
\* reversed, with an outcome on record if this screen dispatched it
ScreenDone ==
    /\ main_pc = "returned"
    /\ gen_pc = "done"
    /\ Len(yielded) = IF random_select = 0 THEN SpaceSize ELSE random_select
    /\ \A w \in Workers : pc[w] = "idle"
    /\ junk = {}
    /\ \A i \in 1..Len(yielded) :
          /\ InWorkLog(yielded[i])
          /\ screens = 1 => HasOutcome(yielded[i])

====
